---- MODULE Spec2Model ----
(***************************************************************************)
(* Model of migrate_keyword_searches (src/migrate_chrome_profile.py), the  *)
(* keyword-search merge between the "Web Data" SQLite files of a source    *)
(* and a destination Chrome profile, and of main, which backs the          *)
(* destination profile up and then runs the selected migration steps.      *)
(*                                                                         *)
(* A database file is a record [exists, hasTable, rows]: whether the file  *)
(* is on disk, whether it holds a usable `keywords` table, and the table's *)
(* rows in rowid order.  A row carries the eight columns the merge copies, *)
(* its rowid `id` and `prepopulate_id`.  The SQL NULL of the integer       *)
(* column prepopulate_id is the empty set and a value n is {n}, so that    *)
(* `prepopulate_id > 0` is neither true nor false of NULL; the SQL NULL of *)
(* a text column is the string NULL.                                       *)
(*                                                                         *)
(* What raises is decided by the inputs: shutil.copy2 raises when the      *)
(* permissions in env forbid the copy, and then writes nothing; a          *)
(* statement on the private temporary copies raises sqlite3.Error when the *)
(* table it names is missing or when an INSERT lacks the required          *)
(* short_name.  The same files and permissions give the same outcome in a  *)
(* second call.                                                            *)
(***************************************************************************)
EXTENDS Integers, Sequences, FiniteSets, TLC

VARIABLES
    source_db,      \* the file <from_profile>/Web Data
    dest_db,        \* the file <to_profile>/Web Data
    env,            \* file permissions of the two profile paths
    temp_source,    \* the temporary copy of source_db
    temp_dest,      \* the temporary copy of dest_db, committed content
    txn,            \* rows inserted through dest_conn and not yet committed
    source_conn,    \* "unopened", "open" or "closed"
    dest_conn,      \* "unopened", "open" or "closed"
    keywords,       \* the list fetched from the source (keywords)
    idx,            \* position of the for loop in keywords
    migrated_count, \* migrated_count
    log,            \* the lines written by log() during the current call
    ret,            \* what the call returned: "unset" while running, then "None"
    pc,             \* position of the call
    run,            \* "first" or "second" call of migrate_keyword_searches
    destBefore,     \* dest_db as it was when the current call started
    prevLog,        \* the log of the first call, kept for the second
    mainPc,         \* position of main
    options,        \* the keys of the options that are enabled
    to_profile,     \* the destination profile directory, Web Data apart
    backup_dir,     \* the directory create_backup copies to_profile into
    called          \* create_backup and the migration steps main has called

\* The state of main.
mainVars == <<mainPc, options, to_profile, backup_dir, called>>

vars == <<source_db, dest_db, env, temp_source, temp_dest, txn, source_conn,
          dest_conn, keywords, idx, migrated_count, log, ret, pc, run,
          destBefore, prevLog, mainVars>>

(* Bounds of the model: rows in the source table, rows in the destination. *)
MaxSrc == 2
MaxDst == 1

NULL == "NULL"

Range(s) == {s[i] : i \in 1..Len(s)}

(***************************************************************************)
(* Sample rows.                                                            *)
(***************************************************************************)
PayloadA ==
    [short_name |-> "Alpha", favicon_url |-> "a.ico", url |-> "a.org?q=%s",
     safe_for_autoreplace |-> 0, usage_count |-> 3, date_created |-> 100,
     last_modified |-> 200]
PayloadB ==
    [short_name |-> "Beta", favicon_url |-> "b.ico", url |-> "b.org?q=%s",
     safe_for_autoreplace |-> 1, usage_count |-> 7, date_created |-> 110,
     last_modified |-> 220]
\* A row whose required short_name is missing.
PayloadBad ==
    [short_name |-> NULL, favicon_url |-> "c.ico", url |-> "c.org?q=%s",
     safe_for_autoreplace |-> 0, usage_count |-> 1, date_created |-> 120,
     last_modified |-> 240]

Row(k, p, pid) ==
    [id |-> 0, keyword |-> k, short_name |-> p.short_name,
     favicon_url |-> p.favicon_url, url |-> p.url,
     safe_for_autoreplace |-> p.safe_for_autoreplace,
     usage_count |-> p.usage_count, date_created |-> p.date_created,
     last_modified |-> p.last_modified, prepopulate_id |-> pid]

SourceRows ==
    { Row("wiki", PayloadA, {0}), Row("wiki", PayloadB, {0}),
      Row("wiki", PayloadBad, {0}), Row("wiki", PayloadB, {1}),
      Row("g", PayloadB, {}), Row("g", PayloadA, {0}),
      Row("g", PayloadA, {1}), Row("g", PayloadA, {-1}) }

DestRows ==
    { Row("wiki", PayloadB, {0}), Row("g", PayloadA, {1}), Row("g", PayloadB, {0}) }

SeqsUpTo(S, n) == UNION {[1..k -> S] : k \in 0..n}

\* A table gives its rows the rowids 1, 2, ... in order.
MkTable(s) == [i \in 1..Len(s) |-> [s[i] EXCEPT !.id = i]]

NoFile == [exists |-> FALSE, hasTable |-> FALSE, rows |-> <<>>]
\* A file that is no database with a keywords table (empty or foreign).
EmptyFile == [exists |-> TRUE, hasTable |-> FALSE, rows |-> <<>>]
Db(s) == [exists |-> TRUE, hasTable |-> TRUE, rows |-> MkTable(s)]

SourceFiles == {NoFile, EmptyFile} \cup {Db(s) : s \in SeqsUpTo(SourceRows, MaxSrc)}
DestFiles == {NoFile, EmptyFile} \cup {Db(s) : s \in SeqsUpTo(DestRows, MaxDst)}

\* The keys of MIGRATION_OPTIONS and those enabled by default.
OptionKeys == {"extensions", "bookmarks", "keyword_searches", "profile_picture", "tabs"}
DefaultOptions == {"extensions", "bookmarks", "keyword_searches", "profile_picture"}

\* The item lists of the copy steps, each taken as one group of the profile.
Groups == {"EXTENSIONS_DIRS", "EXTENSION_PREFERENCE_FILES", "BOOKMARK_FILES",
           "PROFILE_PICTURE_FILE", "TABS_ITEMS"}

\* A profile directory apart from its Web Data file: whether it is on disk
\* and the groups of which some item was replaced or removed since main began.
Profile(e, c) == [exists |-> e, changed |-> c]

\* A backup directory: a copy of the profile directory and of its Web Data.
NoBackup == [exists |-> FALSE, changed |-> {}, web_data |-> NoFile]
Backup(p, f) == [exists |-> TRUE, changed |-> p.changed, web_data |-> f]

\* The functions main calls from the backup on.
MigrationSteps == {"copy_extensions", "copy_extension_preferences", "copy_bookmarks",
                   "copy_profile_picture", "copy_tabs", "migrate_keyword_searches"}
Envs == [srcReadable : BOOLEAN, dstReadable : BOOLEAN, dstWritable : BOOLEAN]

(***************************************************************************)
(* Pure parts of the code.                                                 *)
(***************************************************************************)
\* The eight columns of the SELECT and of the INSERT, in their order.
KwTuple(r) ==
    [keyword |-> r.keyword, short_name |-> r.short_name,
     favicon_url |-> r.favicon_url, url |-> r.url,
     safe_for_autoreplace |-> r.safe_for_autoreplace,
     usage_count |-> r.usage_count, date_created |-> r.date_created,
     last_modified |-> r.last_modified]

\* Faulty variant of PrepopulatedIds: the inner WHERE clause selects nothing, as when
\* the filter is left out.
PrepopulatedIdsNone(rows) == {}

\* SELECT id FROM keywords WHERE prepopulate_id > 0
PrepopulatedIds(rows) ==
    {r.id : r \in {x \in Range(rows) : \E n \in x.prepopulate_id : n > 0}}

RECURSIVE SelectNotIn(_, _)
SelectNotIn(rows, ids) ==
    IF rows = <<>> THEN <<>>
    ELSE (IF Head(rows).id \notin ids THEN <<KwTuple(Head(rows))>> ELSE <<>>)
         \o SelectNotIn(Tail(rows), ids)

\* SELECT <eight columns> FROM keywords WHERE id NOT IN (<prepopulated ids>)
CustomKeywords(rows) == SelectNotIn(rows, PrepopulatedIds(rows))

\* Faulty variant of KeywordExists: the lookup never finds a row.
KeywordExistsNever(rows, keyword) == FALSE

\* SELECT id FROM keywords WHERE keyword = ?  followed by fetchone()
KeywordExists(rows, keyword) == \E i \in 1..Len(rows) : rows[i].keyword = keyword

RECURSIVE MaxId(_)
MaxId(rows) ==
    IF rows = <<>> THEN 0
    ELSE LET m == MaxId(Tail(rows)) IN IF Head(rows).id > m THEN Head(rows).id ELSE m

\* Faulty variant of NewRow: the INSERT binds date_created to both timestamp columns.
NewRowStaleTimestamp(rows, kw) ==
    [id |-> MaxId(rows) + 1, keyword |-> kw.keyword, short_name |-> kw.short_name,
     favicon_url |-> kw.favicon_url, url |-> kw.url,
     safe_for_autoreplace |-> kw.safe_for_autoreplace,
     usage_count |-> kw.usage_count, date_created |-> kw.date_created,
     last_modified |-> kw.date_created, prepopulate_id |-> {0}]

\* The row INSERT creates from kw: the eight columns verbatim, a fresh rowid,
\* and the column default for prepopulate_id, which the INSERT does not name.
NewRow(rows, kw) ==
    [id |-> MaxId(rows) + 1, keyword |-> kw.keyword, short_name |-> kw.short_name,
     favicon_url |-> kw.favicon_url, url |-> kw.url,
     safe_for_autoreplace |-> kw.safe_for_autoreplace,
     usage_count |-> kw.usage_count, date_created |-> kw.date_created,
     last_modified |-> kw.last_modified, prepopulate_id |-> {0}]

\* The INSERT raises sqlite3.IntegrityError for a row without its required
\* short_name (the keywords table declares it NOT NULL).
InsertRaises(kw) == kw.short_name = NULL

\* shutil.copy2: the target gets the content of the origin.
CopyFile(f) == f

\* Faulty variant of DestView: the lookup sees the rows the destination held
\* when it was copied, not those inserted since.
DestViewCommittedOnly == temp_dest.rows

\* What dest_conn sees: the committed rows and those of its open transaction.
DestView == temp_dest.rows \o txn

Entry(kind, k, name) == [kind |-> kind, keyword |-> k, short_name |-> name]

\* Both connection objects are released when the frame of the call goes away
\* without close(): whether that closes them depends on the interpreter.
Released(conn, finalized) == IF conn = "open" /\ finalized THEN "closed" ELSE conn

(***************************************************************************)
(* Initial states: every pair of files and permissions within the bounds,  *)
(* at the entry of the first call, main having made the backup and reached *)
(* the call.                                                               *)
(***************************************************************************)
Init ==
    /\ source_db \in SourceFiles
    /\ dest_db \in DestFiles
    /\ env \in Envs
    /\ temp_source = NoFile
    /\ temp_dest = NoFile
    /\ txn = <<>>
    /\ source_conn = "unopened"
    /\ dest_conn = "unopened"
    /\ keywords = <<>>
    /\ idx = 0
    /\ migrated_count = 0
    /\ log = <<>>
    /\ ret = "unset"
    /\ pc = "start"
    /\ run = "first"
    /\ destBefore = dest_db
    /\ prevLog = <<>>
    /\ mainPc = "keyword_searches"
    /\ options = {"keyword_searches"}
    /\ to_profile = Profile(TRUE, {})
    /\ backup_dir = Backup(to_profile, dest_db)
    /\ called = <<"create_backup", "migrate_keyword_searches">>

\* A return of the function: it has no return value on any path.
Return(entry) ==
    /\ log' = Append(log, entry)
    /\ ret' = "None"
    /\ pc' = "done"

\* if not os.path.exists(source_db): log; return
SourceMissing ==
    /\ pc = "start"
    /\ ~source_db.exists
    /\ Return(Entry("no_source", "", ""))
    /\ UNCHANGED <<source_db, dest_db, env, temp_source, temp_dest, txn,
                   source_conn, dest_conn, keywords, idx, migrated_count,
                   run, destBefore, prevLog, mainVars>>

\* Faulty variant of BulkCopy: only the custom rows reach the new destination.
BulkCopyCustomOnly ==
    /\ pc = "start"
    /\ source_db.exists
    /\ ~dest_db.exists
    /\ env.srcReadable /\ env.dstWritable
    /\ dest_db' = [source_db EXCEPT !.rows =
                      SelectSeq(source_db.rows,
                                LAMBDA r : r.id \notin PrepopulatedIds(source_db.rows))]
    /\ Return(Entry("copied_database", "", ""))
    /\ UNCHANGED <<source_db, env, temp_source, temp_dest, txn, source_conn,
                   dest_conn, keywords, idx, migrated_count, run,
                   destBefore, prevLog, mainVars>>

\* if not os.path.exists(dest_db): shutil.copy2(source_db, dest_db); return
BulkCopy ==
    /\ pc = "start"
    /\ source_db.exists
    /\ ~dest_db.exists
    /\ env.srcReadable /\ env.dstWritable
    /\ dest_db' = CopyFile(source_db)
    /\ Return(Entry("copied_database", "", ""))
    /\ UNCHANGED <<source_db, env, temp_source, temp_dest, txn, source_conn,
                   dest_conn, keywords, idx, migrated_count, run,
                   destBefore, prevLog, mainVars>>

\* the same copy raising: except Exception: log; return
BulkCopyFails ==
    /\ pc = "start"
    /\ source_db.exists
    /\ ~dest_db.exists
    /\ ~(env.srcReadable /\ env.dstWritable)
    /\ Return(Entry("error_copying", "", ""))
    /\ UNCHANGED <<source_db, dest_db, env, temp_source, temp_dest, txn,
                   source_conn, dest_conn, keywords, idx, migrated_count,
                   run, destBefore, prevLog, mainVars>>

\* Faulty variant of CopyToTemp: the first copy has its arguments swapped, so
\* the fresh temporary file is copied over the source store.
CopyToTempSwapped ==
    /\ pc = "start"
    /\ source_db.exists
    /\ dest_db.exists
    /\ env.srcReadable /\ env.dstReadable
    /\ source_db' = CopyFile(EmptyFile)
    /\ temp_source' = EmptyFile
    /\ temp_dest' = CopyFile(dest_db)
    /\ pc' = "connect"
    /\ UNCHANGED <<dest_db, env, txn, source_conn, dest_conn, keywords, idx,
                   migrated_count, log, ret, run, destBefore, prevLog,
                   mainVars>>

\* The two temporary files are created and the stores copied into them.
CopyToTemp ==
    /\ pc = "start"
    /\ source_db.exists
    /\ dest_db.exists
    /\ env.srcReadable /\ env.dstReadable
    /\ temp_source' = CopyFile(source_db)
    /\ temp_dest' = CopyFile(dest_db)
    /\ pc' = "connect"
    /\ UNCHANGED <<source_db, dest_db, env, txn, source_conn, dest_conn,
                   keywords, idx, migrated_count, log, ret, run, destBefore,
                   prevLog, mainVars>>

\* Faulty variant of CopyToTempFails: the error path copies temp_dest back over the
\* destination before returning.
CopyToTempFailsCopiesBack ==
    /\ pc = "start"
    /\ source_db.exists
    /\ dest_db.exists
    /\ ~(env.srcReadable /\ env.dstReadable)
    /\ temp_source' = IF env.srcReadable THEN CopyFile(source_db) ELSE EmptyFile
    /\ temp_dest' = EmptyFile
    /\ dest_db' = CopyFile(EmptyFile)
    /\ Return(Entry("error", "", "store_unavailable"))
    /\ UNCHANGED <<source_db, env, txn, source_conn, dest_conn, keywords,
                   idx, migrated_count, run, destBefore, prevLog, mainVars>>

\* One of the two copies raises: the outer `except Exception` logs it and the
\* function returns; the temporary files stay behind.
CopyToTempFails ==
    /\ pc = "start"
    /\ source_db.exists
    /\ dest_db.exists
    /\ ~(env.srcReadable /\ env.dstReadable)
    /\ temp_source' = IF env.srcReadable THEN CopyFile(source_db) ELSE EmptyFile
    /\ temp_dest' = EmptyFile
    /\ Return(Entry("error", "", "store_unavailable"))
    /\ UNCHANGED <<source_db, dest_db, env, txn, source_conn, dest_conn,
                   keywords, idx, migrated_count, run, destBefore, prevLog,
                   mainVars>>

\* sqlite3.connect on both temporary files, and the two cursors.
Connect ==
    /\ pc = "connect"
    /\ source_conn' = "open"
    /\ dest_conn' = "open"
    /\ pc' = "query"
    /\ UNCHANGED <<source_db, dest_db, env, temp_source, temp_dest, txn,
                   keywords, idx, migrated_count, log, ret, run, destBefore,
                   prevLog, mainVars>>

\* The SELECT on the source raises sqlite3.Error (no keywords table): the
\* outer `except sqlite3.Error` logs it and the function returns without
\* reaching the two close() calls.
QueryFails ==
    /\ pc = "query"
    /\ ~temp_source.hasTable
    /\ \E finalized \in BOOLEAN :
        /\ source_conn' = Released(source_conn, finalized)
        /\ dest_conn' = Released(dest_conn, finalized)
    /\ Return(Entry("error_sqlite", "", "query_failed"))
    /\ UNCHANGED <<source_db, dest_db, env, temp_source, temp_dest, txn,
                   keywords, idx, migrated_count, run, destBefore, prevLog,
                   mainVars>>

\* keywords = fetchall() is empty: "No custom keyword searches found".
QueryEmpty ==
    /\ pc = "query"
    /\ temp_source.hasTable
    /\ CustomKeywords(temp_source.rows) = <<>>
    /\ keywords' = <<>>
    /\ log' = Append(log, Entry("none_found", "", ""))
    /\ pc' = "close"
    /\ UNCHANGED <<source_db, dest_db, env, temp_source, temp_dest, txn,
                   source_conn, dest_conn, idx, migrated_count, ret, run,
                   destBefore, prevLog, mainVars>>

\* keywords = fetchall() is not empty: migrated_count = 0 and the loop starts.
QueryFound ==
    /\ pc = "query"
    /\ temp_source.hasTable
    /\ CustomKeywords(temp_source.rows) # <<>>
    /\ keywords' = CustomKeywords(temp_source.rows)
    /\ migrated_count' = 0
    /\ idx' = 1
    /\ log' = Append(log, Entry("found", "", ""))
    /\ pc' = "loop"
    /\ UNCHANGED <<source_db, dest_db, env, temp_source, temp_dest, txn,
                   source_conn, dest_conn, ret, run, destBefore, prevLog,
                   mainVars>>

\* The for loop goes to its next element, or ends.
Advance ==
    /\ idx' = idx + 1
    /\ pc' = IF idx + 1 > Len(keywords) THEN "after_loop" ELSE "loop"

\* The lookup SELECT on the destination raises sqlite3.Error (no keywords
\* table): the inner except logs the keyword, the loop goes on.
LookupFails ==
    /\ pc = "loop"
    /\ ~temp_dest.hasTable
    /\ log' = Append(log, Entry("error_migrating", keywords[idx].keyword, ""))
    /\ Advance
    /\ UNCHANGED <<source_db, dest_db, env, temp_source, temp_dest, txn,
                   source_conn, dest_conn, keywords, migrated_count, ret,
                   run, destBefore, prevLog, mainVars>>

\* Faulty variant of SkipExisting: the skip is not logged.
SkipExistingSilent ==
    /\ pc = "loop"
    /\ temp_dest.hasTable
    /\ KeywordExists(DestView, keywords[idx].keyword)
    /\ Advance
    /\ UNCHANGED <<source_db, dest_db, env, temp_source, temp_dest, txn,
                   source_conn, dest_conn, keywords, migrated_count, log,
                   ret, run, destBefore, prevLog, mainVars>>

\* fetchone() finds the keyword: "Skipping", continue.
SkipExisting ==
    /\ pc = "loop"
    /\ temp_dest.hasTable
    /\ KeywordExists(DestView, keywords[idx].keyword)
    /\ log' = Append(log, Entry("skipped", keywords[idx].keyword, ""))
    /\ Advance
    /\ UNCHANGED <<source_db, dest_db, env, temp_source, temp_dest, txn,
                   source_conn, dest_conn, keywords, migrated_count, ret,
                   run, destBefore, prevLog, mainVars>>

\* Faulty variant of InsertKeyword: every INSERT is committed and copied back at once.
InsertKeywordAutocommit ==
    /\ pc = "loop"
    /\ temp_dest.hasTable
    /\ ~KeywordExists(DestView, keywords[idx].keyword)
    /\ ~InsertRaises(keywords[idx])
    /\ temp_dest' = [temp_dest EXCEPT !.rows =
                       Append(DestView, NewRow(DestView, keywords[idx]))]
    /\ dest_db' = CopyFile(temp_dest')
    /\ txn' = <<>>
    /\ migrated_count' = migrated_count + 1
    /\ log' = Append(log, Entry("migrated", keywords[idx].keyword,
                                keywords[idx].short_name))
    /\ Advance
    /\ UNCHANGED <<source_db, env, temp_source, source_conn, dest_conn,
                   keywords, ret, run, destBefore, prevLog, mainVars>>

\* The keyword is not found and the INSERT succeeds.
InsertKeyword ==
    /\ pc = "loop"
    /\ temp_dest.hasTable
    /\ ~KeywordExists(DestView, keywords[idx].keyword)
    /\ ~InsertRaises(keywords[idx])
    /\ txn' = Append(txn, NewRow(DestView, keywords[idx]))
    /\ migrated_count' = migrated_count + 1
    /\ log' = Append(log, Entry("migrated", keywords[idx].keyword,
                                keywords[idx].short_name))
    /\ Advance
    /\ UNCHANGED <<source_db, dest_db, env, temp_source, temp_dest,
                   source_conn, dest_conn, keywords, ret, run, destBefore,
                   prevLog, mainVars>>

\* Faulty variant of InsertFails: the error leaves the loop and ends the call, as
\* when the try encloses the whole loop.
InsertFailsAborts ==
    /\ pc = "loop"
    /\ temp_dest.hasTable
    /\ ~KeywordExists(DestView, keywords[idx].keyword)
    /\ InsertRaises(keywords[idx])
    /\ Return(Entry("error_sqlite", keywords[idx].keyword, "insert_failed"))
    /\ UNCHANGED <<source_db, dest_db, env, temp_source, temp_dest, txn,
                   source_conn, dest_conn, keywords, idx, migrated_count,
                   run, destBefore, prevLog, mainVars>>

\* The keyword is not found and the INSERT raises sqlite3.Error.
InsertFails ==
    /\ pc = "loop"
    /\ temp_dest.hasTable
    /\ ~KeywordExists(DestView, keywords[idx].keyword)
    /\ InsertRaises(keywords[idx])
    /\ log' = Append(log, Entry("error_migrating", keywords[idx].keyword, ""))
    /\ Advance
    /\ UNCHANGED <<source_db, dest_db, env, temp_source, temp_dest, txn,
                   source_conn, dest_conn, keywords, migrated_count, ret,
                   run, destBefore, prevLog, mainVars>>

\* if migrated_count > 0 is false: nothing is committed or copied back.
NothingMigrated ==
    /\ pc = "after_loop"
    /\ migrated_count = 0
    /\ pc' = "close"
    /\ UNCHANGED <<source_db, dest_db, env, temp_source, temp_dest, txn,
                   source_conn, dest_conn, keywords, idx, migrated_count,
                   log, ret, run, destBefore, prevLog, mainVars>>

\* dest_conn.commit(): the transaction's rows become content of temp_dest.
Commit ==
    /\ pc = "after_loop"
    /\ migrated_count > 0
    /\ temp_dest' = [temp_dest EXCEPT !.rows = @ \o txn]
    /\ txn' = <<>>
    /\ log' = Append(log, Entry("migrated_total", "", ""))
    /\ pc' = "copy_back"
    /\ UNCHANGED <<source_db, dest_db, env, temp_source, source_conn,
                   dest_conn, keywords, idx, migrated_count, ret, run,
                   destBefore, prevLog, mainVars>>

\* Faulty variant of CopyBack: the wrong temporary file is copied back.
CopyBackWrongFile ==
    /\ pc = "copy_back"
    /\ env.dstWritable
    /\ dest_db' = CopyFile(temp_source)
    /\ log' = Append(log, Entry("updated_database", "", ""))
    /\ pc' = "close"
    /\ UNCHANGED <<source_db, env, temp_source, temp_dest, txn, source_conn,
                   dest_conn, keywords, idx, migrated_count, ret, run,
                   destBefore, prevLog, mainVars>>

\* shutil.copy2(temp_dest, dest_db)
CopyBack ==
    /\ pc = "copy_back"
    /\ env.dstWritable
    /\ dest_db' = CopyFile(temp_dest)
    /\ log' = Append(log, Entry("updated_database", "", ""))
    /\ pc' = "close"
    /\ UNCHANGED <<source_db, env, temp_source, temp_dest, txn, source_conn,
                   dest_conn, keywords, idx, migrated_count, ret, run,
                   destBefore, prevLog, mainVars>>

\* The copy back raises: the outer `except Exception` logs it and the function
\* returns without reaching the two close() calls.
CopyBackFails ==
    /\ pc = "copy_back"
    /\ ~env.dstWritable
    /\ \E finalized \in BOOLEAN :
        /\ source_conn' = Released(source_conn, finalized)
        /\ dest_conn' = Released(dest_conn, finalized)
    /\ Return(Entry("error", "", "copy_back_failed"))
    /\ UNCHANGED <<source_db, dest_db, env, temp_source, temp_dest, txn,
                   keywords, idx, migrated_count, run, destBefore, prevLog,
                   mainVars>>

\* source_conn.close(); dest_conn.close(); os.remove of both temporary files;
\* the function ends.
Close ==
    /\ pc = "close"
    /\ source_conn' = "closed"
    /\ dest_conn' = "closed"
    /\ txn' = <<>>
    /\ temp_source' = NoFile
    /\ temp_dest' = NoFile
    /\ ret' = "None"
    /\ pc' = "done"
    /\ UNCHANGED <<source_db, dest_db, env, keywords, idx, migrated_count,
                   log, run, destBefore, prevLog, mainVars>>

\* migrate_keyword_searches is called a second time with the same profiles:
\* fresh locals, the files as the first call left them.
Rerun ==
    /\ pc = "done"
    /\ run = "first"
    /\ run' = "second"
    /\ prevLog' = log
    /\ destBefore' = dest_db
    /\ temp_source' = NoFile
    /\ temp_dest' = NoFile
    /\ txn' = <<>>
    /\ source_conn' = "unopened"
    /\ dest_conn' = "unopened"
    /\ keywords' = <<>>
    /\ idx' = 0
    /\ migrated_count' = 0
    /\ log' = <<>>
    /\ ret' = "unset"
    /\ pc' = "start"
    /\ UNCHANGED <<source_db, dest_db, env, mainVars>>

Next ==
    \/ SourceMissing
    \/ BulkCopy
    \/ BulkCopyFails
    \/ CopyToTemp
    \/ CopyToTempFails
    \/ Connect
    \/ QueryFails
    \/ QueryEmpty
    \/ QueryFound
    \/ LookupFails
    \/ SkipExisting
    \/ InsertKeyword
    \/ InsertFails
    \/ NothingMigrated
    \/ Commit
    \/ CopyBack
    \/ CopyBackFails
    \/ Close

\* One call of migrate_keyword_searches.
Spec == Init /\ [][Next]_vars

NextTwice == Next \/ Rerun

\* Two calls in succession on the same profiles.
SpecTwice == Init /\ [][NextTwice]_vars

(***************************************************************************)
(* main: configuration, checks, menu, backup, then the selected steps.     *)
(* The answers of the user and the outcome of each copy are chosen at the  *)
(* step: create_backup may fail for any destination, and cannot succeed on *)
(* a Web Data file it cannot read; a copy function changes its group of    *)
(* items only when the permissions in env allow the copy.                  *)
(***************************************************************************)
\* The source Web Data files main is run on.
MainSourceFiles ==
    {NoFile, EmptyFile, Db(<<>>), Db(<<Row("wiki", PayloadA, {0})>>),
     Db(<<Row("wiki", PayloadBad, {0})>>),
     Db(<<Row("g", PayloadA, {1}), Row("g", PayloadB, {})>>)}

\* The state at the entry of main: the options at their defaults, no backup,
\* the destination profile present or not (and then without Web Data).
InitMain ==
    /\ source_db \in MainSourceFiles
    /\ dest_db \in DestFiles
    /\ env \in Envs
    /\ temp_source = NoFile
    /\ temp_dest = NoFile
    /\ txn = <<>>
    /\ source_conn = "unopened"
    /\ dest_conn = "unopened"
    /\ keywords = <<>>
    /\ idx = 0
    /\ migrated_count = 0
    /\ log = <<>>
    /\ ret = "unset"
    /\ pc = "not_called"
    /\ run = "first"
    /\ destBefore = dest_db
    /\ prevLog = <<>>
    /\ mainPc = "load_config"
    /\ options = DefaultOptions
    /\ to_profile \in {Profile(e, {}) : e \in {b \in BOOLEAN : b \/ ~dest_db.exists}}
    /\ backup_dir = NoBackup
    /\ called = <<>>

\* What each action of main leaves alone: the state of the keyword merge.
MergeVars == <<source_db, dest_db, env, temp_source, temp_dest, txn,
               source_conn, dest_conn, keywords, idx, migrated_count, log,
               ret, pc, run, destBefore, prevLog>>

\* main moves on without touching a file.
Goto(stage) ==
    /\ mainPc' = stage
    /\ UNCHANGED <<MergeVars, options, to_profile, backup_dir, called>>

\* config = load_config(): the configuration names both profiles.
LoadConfig == mainPc = "load_config" /\ Goto("check_chrome")

\* if not config: run_profile_discovery(), which writes config.ini and exits.
RunProfileDiscovery ==
    /\ mainPc = "load_config"
    /\ \E code \in {"exit_0", "exit_1"} : Goto(code)

\* check_chrome_running(): Chrome is not running, or the user closes it.
CheckChromeRunning == mainPc = "check_chrome" /\ Goto("validate_paths")

\* check_chrome_running(): the user declines to close Chrome; sys.exit(0).
CheckChromeCancelled == mainPc = "check_chrome" /\ Goto("exit_0")

\* validate_paths(): both profile directories exist.
ValidatePaths ==
    /\ mainPc = "validate_paths"
    /\ to_profile.exists
    /\ Goto("menu")

\* validate_paths(): the destination is missing and the user has it created.
ValidatePathsCreates ==
    /\ mainPc = "validate_paths"
    /\ ~to_profile.exists
    /\ to_profile' = [to_profile EXCEPT !.exists = TRUE]
    /\ mainPc' = "menu"
    /\ UNCHANGED <<MergeVars, options, backup_dir, called>>

\* validate_paths(): the source is missing, or the destination is missing and
\* is not created; sys.exit(1).
ValidatePathsExits == mainPc = "validate_paths" /\ Goto("exit_1")

\* options = show_migration_menu(options): the user toggles any of the keys.
ShowMigrationMenu ==
    /\ mainPc = "menu"
    /\ options' \in SUBSET OptionKeys
    /\ mainPc' = "selected"
    /\ UNCHANGED <<MergeVars, to_profile, backup_dir, called>>

\* if not any(opt['enabled'] ...): sys.exit(0)
NothingSelected ==
    /\ mainPc = "selected"
    /\ options = {}
    /\ Goto("exit_0")

\* Faulty variant of CreateBackupFails: the error is logged and main goes on
\* to the migration steps.
CreateBackupFailsGoesOn ==
    /\ mainPc = "selected"
    /\ options # {}
    /\ called' = Append(called, "create_backup")
    /\ mainPc' = "extensions"
    /\ UNCHANGED <<MergeVars, options, to_profile, backup_dir>>

\* create_backup(): shutil.copytree(to_profile, backup_dir) succeeds.
CreateBackup ==
    /\ mainPc = "selected"
    /\ options # {}
    /\ to_profile.exists
    /\ env.dstReadable \/ ~dest_db.exists
    /\ backup_dir' = Backup(to_profile, CopyFile(dest_db))
    /\ called' = Append(called, "create_backup")
    /\ mainPc' = "extensions"
    /\ UNCHANGED <<MergeVars, options, to_profile>>

\* create_backup(): copytree raises (a file it cannot read, a directory it
\* cannot create); except Exception: log; sys.exit(1).
CreateBackupFails ==
    /\ mainPc = "selected"
    /\ options # {}
    /\ called' = Append(called, "create_backup")
    /\ mainPc' = "exit_1"
    /\ UNCHANGED <<MergeVars, options, to_profile, backup_dir>>

\* The stage main goes to after the step of an option.
AfterStage(stage) ==
    CASE stage = "extensions" -> "bookmarks"
      [] stage = "bookmarks" -> "profile_picture"
      [] stage = "profile_picture" -> "tabs"
      [] stage = "tabs" -> "keyword_searches"
      [] stage = "keyword_searches" -> "summary"

\* if options[...]['enabled'] is false: the step is not called.
SkipDisabled ==
    /\ mainPc \in OptionKeys
    /\ mainPc \notin options
    /\ Goto(AfterStage(mainPc))

\* One of the copy functions: for each item of its list that the source
\* profile has, the destination's item is removed and replaced by a copy; an
\* exception is logged and the function goes on.  The group counts as changed
\* when some item of it was replaced or removed.
CopyItems(fn, group, stage) ==
    /\ \E ch \in BOOLEAN :
           /\ ch => env.srcReadable /\ env.dstWritable
           /\ to_profile' =
                  [to_profile EXCEPT !.changed = IF ch THEN @ \cup {group} ELSE @]
    /\ called' = Append(called, fn)
    /\ mainPc' = stage
    /\ UNCHANGED <<MergeVars, options, backup_dir>>

CopyExtensions ==
    /\ mainPc = "extensions"
    /\ "extensions" \in options
    /\ CopyItems("copy_extensions", "EXTENSIONS_DIRS", "extension_preferences")

CopyExtensionPreferences ==
    /\ mainPc = "extension_preferences"
    /\ CopyItems("copy_extension_preferences", "EXTENSION_PREFERENCE_FILES",
                 "bookmarks")

CopyBookmarks ==
    /\ mainPc = "bookmarks"
    /\ "bookmarks" \in options
    /\ CopyItems("copy_bookmarks", "BOOKMARK_FILES", "profile_picture")

CopyProfilePicture ==
    /\ mainPc = "profile_picture"
    /\ "profile_picture" \in options
    /\ CopyItems("copy_profile_picture", "PROFILE_PICTURE_FILE", "tabs")

CopyTabs ==
    /\ mainPc = "tabs"
    /\ "tabs" \in options
    /\ CopyItems("copy_tabs", "TABS_ITEMS", "keyword_searches")

\* main calls migrate_keyword_searches(from_profile, to_profile).
CallMigrateKeywordSearches ==
    /\ mainPc = "keyword_searches"
    /\ "keyword_searches" \in options
    /\ pc = "not_called"
    /\ pc' = "start"
    /\ destBefore' = dest_db
    /\ called' = Append(called, "migrate_keyword_searches")
    /\ UNCHANGED <<source_db, dest_db, env, temp_source, temp_dest, txn,
                   source_conn, dest_conn, keywords, idx, migrated_count, log,
                   ret, run, prevLog, mainPc, options, to_profile, backup_dir>>

\* migrate_keyword_searches has returned, whatever its outcome.
MigrateKeywordSearchesReturns ==
    /\ mainPc = "keyword_searches"
    /\ pc = "done"
    /\ Goto("summary")

\* The closing lines of main: "Migration complete!".
Summary == mainPc = "summary" /\ Goto("returned")

NextMain ==
    \/ LoadConfig
    \/ RunProfileDiscovery
    \/ CheckChromeRunning
    \/ CheckChromeCancelled
    \/ ValidatePaths
    \/ ValidatePathsCreates
    \/ ValidatePathsExits
    \/ ShowMigrationMenu
    \/ NothingSelected
    \/ CreateBackup
    \/ CreateBackupFails
    \/ SkipDisabled
    \/ CopyExtensions
    \/ CopyExtensionPreferences
    \/ CopyBookmarks
    \/ CopyProfilePicture
    \/ CopyTabs
    \/ CallMigrateKeywordSearches
    \/ MigrateKeywordSearchesReturns
    \/ Summary
    \/ Next

\* One run of main.
SpecMain == InitMain /\ [][NextMain]_vars

TypeOK ==
    /\ pc \in {"not_called", "start", "connect", "query", "loop", "after_loop",
               "copy_back", "close", "done"}
    /\ source_conn \in {"unopened", "open", "closed"}
    /\ dest_conn \in {"unopened", "open", "closed"}
    /\ ret \in {"unset", "None"}
    /\ run \in {"first", "second"}
    /\ migrated_count \in 0..Len(keywords)
    /\ idx \in 0..(Len(keywords) + 1)
    /\ mainPc \in OptionKeys \cup
           {"load_config", "check_chrome", "validate_paths", "menu", "selected",
            "extension_preferences", "summary", "returned", "exit_0", "exit_1"}
    /\ options \subseteq OptionKeys
    /\ to_profile.changed \subseteq Groups
    /\ Range(called) \subseteq MigrationSteps \cup {"create_backup"}

(***************************************************************************)
(* Vocabulary of the properties.                                           *)
(***************************************************************************)
Last(s) == s[Len(s)]

ErrorKinds == {"error", "error_sqlite", "error_copying"}

\* The call ended on one of its fatal error paths.
Fatal == pc = "done" /\ log # <<>> /\ Last(log).kind \in ErrorKinds

\* The call took the merge path and ran to its normal end.
MergeRan == pc = "done" /\ source_db.exists /\ destBefore.exists /\ ~Fatal

\* The for loop has gone through the whole list.
LoopOver ==
    \/ pc \in {"after_loop", "copy_back", "close"}
    \/ pc = "done" /\ \E i \in 1..Len(log) : log[i].kind = "found"

NullOrZero(r) == r.prepopulate_id \subseteq {0}
NotPositive(r) == \A n \in r.prepopulate_id : n <= 0
IsPerRecord(e) == e.kind \in {"migrated", "skipped", "error_migrating"}
IsMigrated(e) == e.kind = "migrated"
IsSkipped(e) == e.kind = "skipped"

\* The source rows the query is meant to select, in table order.
EligibleRows == SelectSeq(source_db.rows, NotPositive)
\* The per-record outcome lines of the current call, in order.
PerRecord == SelectSeq(log, IsPerRecord)

WithKeyword(rows, k) == {i \in 1..Len(rows) : rows[i].keyword = k}
Added(rows) == SubSeq(rows, Len(destBefore.rows) + 1, Len(rows))
Min(S) == CHOOSE m \in S : \A n \in S : m <= n

\* Every row of `rows` carries the eight fields of a source row whose
\* prepopulate identifier is null or zero / is not positive.
FromNullOrZero(rows) ==
    \A i \in 1..Len(rows) :
        \E s \in Range(source_db.rows) : NullOrZero(s) /\ KwTuple(s) = KwTuple(rows[i])
FromNotPositive(rows) ==
    \A i \in 1..Len(rows) :
        \E s \in Range(source_db.rows) : NotPositive(s) /\ KwTuple(s) = KwTuple(rows[i])

\* The rows the current call has inserted, wherever they are by now.
InsertedSoFar ==
    IF ~destBefore.exists THEN <<>>
    ELSE IF pc = "done" /\ temp_dest = NoFile THEN Added(dest_db.rows)
    ELSE IF temp_dest.hasTable THEN Added(DestView) ELSE <<>>

(***************************************************************************)
(* C1  Non-destructive.  When the destination already has a keyword table, *)
(* every record it held when migrate_keyword_searches started is still in  *)
(* it, at its place and with every field unchanged, in every state of the  *)
(* call and after it; a source record whose keyword it already holds is    *)
(* skipped.                                                                *)
(***************************************************************************)
C1_NonDestructive ==
    destBefore.hasTable =>
        /\ dest_db.hasTable
        /\ Len(dest_db.rows) >= Len(destBefore.rows)
        /\ \A i \in 1..Len(destBefore.rows) : dest_db.rows[i] = destBefore.rows[i]
        /\ \A i \in 1..Len(PerRecord) :
               WithKeyword(destBefore.rows, PerRecord[i].keyword) # {}
                   => PerRecord[i].kind = "skipped"

\* A call that inserted a record next to an existing one and skipped a source
\* record whose keyword the destination already held.
C1_Witness ==
    /\ MergeRan
    /\ destBefore.rows # <<>>
    /\ Len(dest_db.rows) > Len(destBefore.rows)
    /\ \E i \in 1..Len(log) :
           log[i].kind = "skipped" /\ WithKeyword(destBefore.rows, log[i].keyword) # {}

(***************************************************************************)
(* C2  Completeness, as the claim states it: after a merge into an         *)
(* existing keyword table that ran to its end, from a source whose records *)
(* are custom (prepopulate identifier null or zero) or prepopulated        *)
(* (positive), every well-formed custom source record whose keyword the    *)
(* destination did not hold has exactly one destination record with its    *)
(* keyword, equal to it in all eight fields.                               *)
(***************************************************************************)
C2_Original ==
    (/\ MergeRan
     /\ destBefore.hasTable
     /\ \A s \in Range(source_db.rows) : NullOrZero(s) \/ ~NotPositive(s)) =>
        \A i \in 1..Len(source_db.rows) :
            (NullOrZero(source_db.rows[i])
             /\ source_db.rows[i].short_name # NULL
             /\ WithKeyword(destBefore.rows, source_db.rows[i].keyword) = {})
            => /\ Cardinality(WithKeyword(dest_db.rows, source_db.rows[i].keyword)) = 1
               /\ \A j \in WithKeyword(dest_db.rows, source_db.rows[i].keyword) :
                      KwTuple(dest_db.rows[j]) = KwTuple(source_db.rows[i])

\* The source rows that can be inserted under keyword k: selected by the
\* query (prepopulate identifier not positive) and accepted by the INSERT.
Insertable(k) ==
    {i \in 1..Len(source_db.rows) :
        /\ source_db.rows[i].keyword = k
        /\ NotPositive(source_db.rows[i])
        /\ source_db.rows[i].short_name # NULL}

(***************************************************************************)
(* C2  Completeness, amended: after a merge into a destination that had a  *)
(* keyword table, run to its end without a fatal error, every keyword that *)
(* the destination did not hold and that some source record with a         *)
(* non-positive (or null) prepopulate identifier and an insert that does   *)
(* not fail carries has exactly one destination record, whose eight fields *)
(* equal those of the first such source record in source order.            *)
(***************************************************************************)
C2_Completeness ==
    (MergeRan /\ destBefore.hasTable) =>
        \A k \in {source_db.rows[i].keyword : i \in 1..Len(source_db.rows)} :
            (WithKeyword(destBefore.rows, k) = {} /\ Insertable(k) # {})
            => /\ Cardinality(WithKeyword(dest_db.rows, k)) = 1
               /\ \A j \in WithKeyword(dest_db.rows, k) :
                      KwTuple(dest_db.rows[j]) = KwTuple(source_db.rows[Min(Insertable(k))])

\* A merge that inserted the first of two insertable source records sharing
\* a keyword the destination did not hold.
C2_Witness ==
    /\ MergeRan
    /\ destBefore.hasTable
    /\ \E k \in {"g", "wiki"} :
           /\ WithKeyword(destBefore.rows, k) = {}
           /\ Cardinality(Insertable(k)) = 2
           /\ Cardinality(WithKeyword(dest_db.rows, k)) = 1

FirstRunFatal == prevLog # <<>> /\ Last(prevLog).kind \in ErrorKinds
PrevPerRecord == SelectSeq(prevLog, IsPerRecord)

(***************************************************************************)
(* C4  Idempotence, as the claim states it: when both calls end without a  *)
(* fatal error, the second call migrates zero records, leaves the          *)
(* destination as the first call left it, and skips every source record    *)
(* whose prepopulate identifier is null or zero as a duplicate.            *)
(***************************************************************************)
C4_Original ==
    (run = "second" /\ pc = "done" /\ ~FirstRunFatal /\ ~Fatal) =>
        /\ migrated_count = 0
        /\ dest_db = destBefore
        /\ \A i \in 1..Len(source_db.rows) :
               NullOrZero(source_db.rows[i]) =>
                   \E j \in 1..Len(log) :
                       /\ log[j].kind = "skipped"
                       /\ log[j].keyword = source_db.rows[i].keyword

(***************************************************************************)
(* C4  Idempotence, amended: a second call with the same source and the    *)
(* destination produced by a first call that ended without a fatal error   *)
(* migrates zero records and leaves the destination's records as they were *)
(* after the first call; if the second call too ends without a fatal       *)
(* error, every eligible source record is skipped as a duplicate when the  *)
(* destination holds its keyword and is reported as failed otherwise, as   *)
(* it was in the first call.                                               *)
(***************************************************************************)
C4_Idempotence ==
    (run = "second" /\ pc = "done" /\ ~FirstRunFatal) =>
        /\ migrated_count = 0
        /\ SelectSeq(log, IsMigrated) = <<>>
        /\ dest_db = destBefore
        /\ (~Fatal /\ source_db.exists) =>
               /\ Len(PerRecord) = Len(EligibleRows)
               /\ \A i \in 1..Len(PerRecord) :
                      /\ PerRecord[i].keyword = EligibleRows[i].keyword
                      /\ PerRecord[i].kind =
                             IF WithKeyword(dest_db.rows, PerRecord[i].keyword) # {}
                             THEN "skipped" ELSE "error_migrating"
                      /\ (PerRecord[i].kind = "error_migrating"
                          /\ Len(PrevPerRecord) = Len(PerRecord))
                         => PrevPerRecord[i].kind = "error_migrating"

\* A second call that skipped a record the first call had migrated.
C4_Witness ==
    /\ run = "second"
    /\ pc = "done"
    /\ \E i \in 1..Len(prevLog) : \E j \in 1..Len(log) :
           /\ prevLog[i].kind = "migrated"
           /\ log[j].kind = "skipped"
           /\ log[j].keyword = prevLog[i].keyword

(***************************************************************************)
(* C5  Bulk copy, as the claim states it: when the destination store does  *)
(* not exist, or exists without a keyword table, then after a call that    *)
(* ended without a fatal error the destination's keyword records are the   *)
(* source's keyword records, defaults and custom entries alike.            *)
(***************************************************************************)
C5_Original ==
    (pc = "done" /\ ~Fatal /\ source_db.exists
     /\ (~destBefore.exists \/ ~destBefore.hasTable)) =>
        dest_db.rows = source_db.rows

(***************************************************************************)
(* C5  Bulk copy, amended: when the destination store does not exist and   *)
(* the copy of the source file succeeds, the destination's full record set *)
(* equals the source's full record set, with no per-record check applied.  *)
(* When the destination store exists without a keyword table nothing is    *)
(* copied: the destination is left as it was and every eligible source     *)
(* record is reported as failed.                                           *)
(***************************************************************************)
C5_BulkCopy ==
    /\ (pc = "done" /\ ~Fatal /\ source_db.exists /\ ~destBefore.exists) =>
           /\ dest_db = source_db
           /\ PerRecord = <<>>
    /\ (pc = "done" /\ destBefore.exists /\ ~destBefore.hasTable) =>
           /\ dest_db = destBefore
           /\ \A i \in 1..Len(PerRecord) : PerRecord[i].kind = "error_migrating"
           /\ ~Fatal => Len(PerRecord) = Len(EligibleRows)

\* A bulk copy that carried over a prepopulated record and two records that
\* share a keyword.
C5_Witness ==
    /\ pc = "done"
    /\ ~destBefore.exists
    /\ dest_db.exists
    /\ \E d \in Range(dest_db.rows) : ~NotPositive(d)
    /\ \E k \in {"g", "wiki"} : Cardinality(WithKeyword(dest_db.rows, k)) = 2

(***************************************************************************)
(* C6  A per-record failure does not abort the batch.  Once the loop is    *)
(* over there is one outcome line per eligible source record, in source    *)
(* order: a record that cannot be looked up or inserted is reported as     *)
(* failed (never as migrated) and the records after it are still           *)
(* evaluated; and once the merge has run to its end every record reported  *)
(* as migrated, before or after a failed one, is in the destination with   *)
(* its eight fields.                                                       *)
(***************************************************************************)
C6_FailureDoesNotAbort ==
    /\ LoopOver =>
           /\ Len(PerRecord) = Len(EligibleRows)
           /\ \A i \in 1..Len(PerRecord) :
                  /\ PerRecord[i].keyword = EligibleRows[i].keyword
                  /\ ~destBefore.hasTable => PerRecord[i].kind = "error_migrating"
                  /\ EligibleRows[i].short_name = NULL
                         => PerRecord[i].kind \in {"error_migrating", "skipped"}
    /\ (MergeRan /\ LoopOver) =>
           \A i \in 1..Len(PerRecord) :
               PerRecord[i].kind = "migrated" =>
                   \E d \in Range(dest_db.rows) : KwTuple(d) = KwTuple(EligibleRows[i])

\* A merge that ran to its end with a failed record first and a migrated
\* record after it.
C6_Witness ==
    /\ MergeRan
    /\ Len(PerRecord) = 2
    /\ PerRecord[1].kind = "error_migrating"
    /\ PerRecord[2].kind = "migrated"
    /\ \E d \in Range(dest_db.rows) : d.keyword = PerRecord[2].keyword

\* The call ended because a store could not be opened or the source query
\* failed.
StoreFatal ==
    /\ Fatal
    /\ \/ Last(log).kind = "error_copying"
       \/ Last(log).short_name \in {"store_unavailable", "query_failed"}

(***************************************************************************)
(* C7  Fatal errors leave the destination unmodified.  When a store cannot *)
(* be opened or the source query fails, the call ends without having       *)
(* inserted any record, and the destination file is what it was before the *)
(* call; so it is after every other fatal error.                           *)
(***************************************************************************)
C7_FatalLeavesDestination ==
    /\ StoreFatal =>
           /\ dest_db = destBefore
           /\ txn = <<>>
           /\ migrated_count = 0
           /\ SelectSeq(log, IsPerRecord) = <<>>
    /\ Fatal => dest_db = destBefore

\* A call stopped by the failure of the source query, over a destination
\* that held records.
C7_Witness ==
    /\ Fatal
    /\ Last(log).short_name = "query_failed"
    /\ destBefore.rows # <<>>
    /\ dest_db = destBefore

C9_ScopedAcquisition ==
    pc = "done" => (source_conn # "open" /\ dest_conn # "open")

(***************************************************************************)
(* C10  Commit rule.  On the merge path the destination file changes in    *)
(* one step only, the copy back after the loop has ended, and that step    *)
(* adds all the records of the batch at once; a call that migrated zero    *)
(* records never writes the destination; a merge that ran to its end       *)
(* having migrated records shows all of them in the destination.           *)
(***************************************************************************)
C10_CommitRule ==
    /\ [][(destBefore.exists /\ dest_db' # dest_db) =>
              /\ pc = "copy_back"
              /\ idx > Len(keywords)
              /\ migrated_count > 0
              /\ dest_db = destBefore
              /\ Len(dest_db'.rows) = Len(dest_db.rows) + migrated_count
              /\ Len(SelectSeq(log, IsMigrated)) = migrated_count]_vars
    /\ [](destBefore.exists /\ migrated_count = 0 => dest_db = destBefore)
    /\ []((MergeRan /\ migrated_count > 0) =>
              Len(dest_db.rows) = Len(destBefore.rows) + migrated_count)

\* A merge that ran to its end and showed two migrated records together.
C10_Witness ==
    /\ MergeRan
    /\ migrated_count = 2
    /\ Len(dest_db.rows) = Len(destBefore.rows) + 2

(***************************************************************************)
(* C11  The merge never modifies the source store.  No step of             *)
(* migrate_keyword_searches, on any path and for any input, changes the    *)
(* source file: its existence, its keyword table and its records after the *)
(* call are those before the call.  Only the destination file, the two     *)
(* temporary files and the local state of the call change.                 *)
(***************************************************************************)
C11_SourceUntouched == [][source_db' = source_db]_vars

\* A call that read records from the source and changed the destination.
C11_Witness ==
    /\ pc = "done"
    /\ source_db.rows # <<>>
    /\ keywords # <<>>
    /\ temp_source = NoFile
    /\ dest_db # destBefore

(***************************************************************************)
(* C13  Duplicate keyword within the source, as the claim states it: after *)
(* a call that went through the loop and did not end on a fatal error,     *)
(* when two or more eligible, well-formed source records share a keyword   *)
(* the destination did not hold, the first of them is reported as migrated *)
(* and every later one as skipped, and the destination holds exactly one   *)
(* record for the keyword, with the field values of the first (for a       *)
(* source whose records have a null, zero or positive prepopulate          *)
(* identifier).                                                            *)
(***************************************************************************)
C13_Original ==
    (/\ pc = "done" /\ LoopOver /\ ~Fatal
     /\ \A s \in Range(source_db.rows) : NullOrZero(s) \/ ~NotPositive(s)) =>
        \A k \in {r.keyword : r \in Range(EligibleRows)} :
            (/\ Cardinality(WithKeyword(EligibleRows, k)) >= 2
             /\ \A i \in WithKeyword(EligibleRows, k) : ~InsertRaises(EligibleRows[i])
             /\ WithKeyword(destBefore.rows, k) = {}) =>
                /\ \A i \in WithKeyword(EligibleRows, k) :
                       PerRecord[i].kind =
                           IF i = Min(WithKeyword(EligibleRows, k))
                           THEN "migrated" ELSE "skipped"
                /\ Cardinality(WithKeyword(dest_db.rows, k)) = 1
                /\ \A j \in WithKeyword(dest_db.rows, k) :
                       KwTuple(dest_db.rows[j]) =
                           KwTuple(EligibleRows[Min(WithKeyword(EligibleRows, k))])

\* The eligible source records with keyword k whose INSERT is accepted, by
\* their place among the eligible records.
Accepted(k) == {i \in WithKeyword(EligibleRows, k) : ~InsertRaises(EligibleRows[i])}

(***************************************************************************)
(* C13  Duplicate keyword within the source.  Source records are evaluated *)
(* in source order, each against the destination as it is at the time of   *)
(* its own check, the rows inserted earlier in the same call included.     *)
(* Once the loop has gone through the records, for every keyword that two  *)
(* or more eligible source records share and the destination did not hold: *)
(* into a destination with a keyword table, the first of them whose insert *)
(* is accepted is reported as migrated, those before it as failed and      *)
(* every later one as skipped; and once the merge has run to its end the   *)
(* destination holds exactly one record for the keyword, with the field    *)
(* values of that record (none if no insert was accepted).  Into a         *)
(* destination file without a keyword table every one of them is reported  *)
(* as failed.                                                              *)
(***************************************************************************)
C13_DuplicateInSource ==
    LoopOver =>
        \A k \in {r.keyword : r \in Range(EligibleRows)} :
            (/\ Cardinality(WithKeyword(EligibleRows, k)) >= 2
             /\ WithKeyword(destBefore.rows, k) = {}) =>
                /\ Len(PerRecord) = Len(EligibleRows)
                /\ \A i \in WithKeyword(EligibleRows, k) :
                       /\ PerRecord[i].keyword = k
                       /\ PerRecord[i].kind =
                              IF ~destBefore.hasTable THEN "error_migrating"
                              ELSE IF Accepted(k) = {} \/ i < Min(Accepted(k))
                                   THEN "error_migrating"
                              ELSE IF i = Min(Accepted(k)) THEN "migrated"
                              ELSE "skipped"
                /\ (MergeRan /\ destBefore.hasTable) =>
                       IF Accepted(k) = {}
                       THEN WithKeyword(dest_db.rows, k) = {}
                       ELSE /\ Cardinality(WithKeyword(dest_db.rows, k)) = 1
                            /\ \A j \in WithKeyword(dest_db.rows, k) :
                                   KwTuple(dest_db.rows[j]) =
                                       KwTuple(EligibleRows[Min(Accepted(k))])

\* A merge that ran to its end on two eligible source records of one keyword
\* with different field values: the first was migrated, the second skipped.
C13_Witness ==
    /\ MergeRan
    /\ Len(PerRecord) = 2
    /\ PerRecord[1].kind = "migrated"
    /\ PerRecord[2].kind = "skipped"
    /\ PerRecord[1].keyword = PerRecord[2].keyword
    /\ Len(EligibleRows) = 2
    /\ KwTuple(EligibleRows[1]) # KwTuple(EligibleRows[2])
    /\ \E j \in 1..Len(dest_db.rows) :
           KwTuple(dest_db.rows[j]) = KwTuple(EligibleRows[1])

\* The destination Web Data as it was before any call of the keyword merge.
WebDataAtEntry == IF pc = "not_called" THEN dest_db ELSE destBefore

\* Some migration step has been called.
StepCalled == \E i \in 1..Len(called) : called[i] \in MigrationSteps

(***************************************************************************)
(* C12  Backup before migration.  In main, create_backup is called before  *)
(* every migration step; a step is called only when the backup exists, and *)
(* the backup holds the destination as it was before any step touched it:  *)
(* none of its groups changed and its Web Data the one the keyword merge   *)
(* starts from.  Every change of the destination's Web Data or of a group  *)
(* of its items happens with the backup in place and leaves the backup as  *)
(* it is.  When create_backup fails, main exits with status 1 and no       *)
(* migration step is ever called.                                          *)
(***************************************************************************)
C12_BackupFirst ==
    /\ [](\A i \in 1..Len(called) :
              called[i] \in MigrationSteps =>
                  /\ \E j \in 1..(i - 1) : called[j] = "create_backup"
                  /\ backup_dir.exists
                  /\ backup_dir.changed = {}
                  /\ backup_dir.web_data = WebDataAtEntry)
    /\ [][(dest_db' # dest_db \/ to_profile'.changed # to_profile.changed) =>
              /\ backup_dir.exists
              /\ StepCalled'
              /\ backup_dir' = backup_dir]_vars
    /\ []((called # <<>> /\ ~backup_dir.exists) =>
              /\ mainPc = "exit_1"
              /\ ~StepCalled
              /\ to_profile.changed = {}
              /\ pc = "not_called")

\* A run of main to its end whose steps changed items of the destination
\* profile and its Web Data, the backup holding what they replaced.
C12_Witness ==
    /\ mainPc = "returned"
    /\ backup_dir.exists
    /\ to_profile.changed # {}
    /\ "migrate_keyword_searches" \in Range(called)
    /\ dest_db # backup_dir.web_data

====
